---- MODULE Spec2Model ----
EXTENDS Integers, Sequences, FiniteSets, TLC

\* ------------------------------------------------------------------------
\* A model of the changeset engine (src/addon/utils/delete-key.js: the
\* path-delete utility, lines 1-88, and the changeset factory, lines 90-776).
\*
\* JavaScript objects are heap cells: `heap` is a sequence of objects, an
\* object is a sequence of <<property name, value>> entries in insertion
\* order, and a value is either a primitive, an array of primitives, a
\* reference to a heap cell, a relay proxy or a changeset.  Two references
\* to the same cell alias each other exactly as in the program.
\*
\* A key is the sequence of the segments of its dot-separated string
\* ('org.usa.ca' is <<"org", "usa", "ca">>); a property name is one segment.
\* ------------------------------------------------------------------------

\* ---- values ------------------------------------------------------------
\* Primitives are named by a string: "undefined", "null", "true", "false"
\* are the JavaScript values of those names, every other string (the empty
\* string included) is the JavaScript string with that text.
P(s) == [t |-> "p", s |-> s, a |-> 0, l |-> <<>>]
R(a) == [t |-> "r", s |-> "", a |-> a, l |-> <<>>]
Arr(l) == [t |-> "arr", s |-> "", a |-> 0, l |-> l]
RelayV(c, key) == [t |-> "relay", s |-> "", a |-> c, l |-> key]
This(c) == [t |-> "cs", s |-> "", a |-> c, l |-> <<>>]
Rejected(reason) == [t |-> "rejected", s |-> reason, a |-> 0, l |-> <<>>]
Undef == P("undefined")
Null == P("null")
True == P("true")
False == P("false")

IsRef(v) == v.t = "r"
IsString(v) == v.t = "p" /\ v.s \notin {"undefined", "null", "true", "false"}
isNone(v) == v = Undef \/ v = Null
isArray(v) == v.t = "arr"
isObject(v) == v.t \in {"r", "relay", "cs"}
isChangeset(v) == v.t = "cs"
isEmpty(v) ==
  \/ isNone(v)
  \/ (IsString(v) /\ v.s = "")
  \/ (isArray(v) /\ Len(v.l) = 0)
isPresent(v) == ~isEmpty(v)
isEqual(a, b) == a = b
Truthy(v) == ~(isNone(v) \/ v = False \/ (IsString(v) /\ v.s = ""))

\* A value as recorded in a history: an object as such, not by its cell.
Seen(v) == IF IsRef(v) THEN [t |-> "obj", s |-> "", a |-> 0, l |-> <<>>] ELSE v

\* B(e), with e computed once and named inside B.
Bind(e, B(_)) == CHOOSE r \in {B(v) : v \in {e}} : TRUE

\* ---- objects and the heap ----------------------------------------------
ObjHas(o, n) == \E i \in 1..Len(o) : o[i].k = n
ObjGet(o, n) ==
  IF ObjHas(o, n) THEN o[CHOOSE i \in 1..Len(o) : o[i].k = n].v ELSE Undef
ObjPut(o, n, v) ==
  IF ObjHas(o, n)
  THEN [i \in 1..Len(o) |-> IF o[i].k = n THEN [k |-> n, v |-> v] ELSE o[i]]
  ELSE Append(o, [k |-> n, v |-> v])
ObjDelete(o, n) == SelectSeq(o, LAMBDA e : e.k # n)
ObjKeys(o) == [i \in 1..Len(o) |-> o[i].k]

\* val[n], delete val[n] and Object.keys(val).length for a value that is
\* not null or undefined (the callers test that first).
JsProp(h, val, n) == IF IsRef(val) THEN ObjGet(h[val.a], n) ELSE Undef
JsDelete(h, val, n) ==
  IF IsRef(val) THEN [h EXCEPT ![val.a] = ObjDelete(@, n)] ELSE h
JsKeysLength(h, val) ==
  IF IsRef(val) THEN Len(h[val.a])
  ELSE IF isArray(val) THEN Len(val.l)
  ELSE IF IsString(val) /\ val.s # "" THEN 1
  ELSE 0
Alloc(h, o) == [h |-> Append(h, o), a |-> Len(h) + 1]

\* Ember.get(obj, path): walks the segments, undefined as soon as a level
\* is null or undefined.
RECURSIVE get(_, _, _)
get(h, val, key) ==
  IF Len(key) = 0 THEN val
  ELSE IF isNone(val) THEN Undef
  ELSE Bind(JsProp(h, val, Head(key)), LAMBDA next : get(h, next, Tail(key)))

\* Whether the segments of key lead, own property by own property, to a
\* property of val.
RECURSIVE HasPath(_, _, _)
HasPath(h, val, key) ==
  \/ Len(key) = 0
  \/ /\ IsRef(val)
     /\ ObjHas(h[val.a], Head(key))
     /\ \E next \in {ObjGet(h[val.a], Head(key))} : HasPath(h, next, Tail(key))

\* obj.hasOwnProperty(key) with the whole dotted string as property name:
\* no property name of the model holds a separator.
hasOwnProperty(h, a, key) == Len(key) = 1 /\ ObjHas(h[a], key[1])

\* ---- utils/delete-key ---------------------------------------------------
\* One pass of the body of `for (let prop in finalObject)` for the key
\* `elem`, on the copy at cell f.  The nested levels it deletes from are
\* the cells the copied object shares with its original.
DeleteProp(h, f, elem, prop) ==
  IF elem = <<prop>>
  THEN [h |-> [h EXCEPT ![f] = ObjDelete(@, prop)], thrown |-> FALSE]
  ELSE IF Len(elem) > 1
  THEN IF Len(elem) = 2
       THEN LET nestedObjectRef == ObjGet(h[f], elem[1]) IN
            IF ~isEmpty(nestedObjectRef)
            THEN LET h1 == JsDelete(h, nestedObjectRef, elem[2]) IN
                 IF JsKeysLength(h1, nestedObjectRef) = 0
                 THEN [h |-> [h1 EXCEPT ![f] = ObjDelete(@, elem[1])],
                       thrown |-> FALSE]
                 ELSE [h |-> h1, thrown |-> FALSE]
            ELSE [h |-> h, thrown |-> FALSE]
       ELSE IF Len(elem) = 3
       THEN LET nestedObjectRef == ObjGet(h[f], elem[1]) IN
            IF ~isEmpty(nestedObjectRef)
            THEN LET deepestRef == JsProp(h, nestedObjectRef, elem[2]) IN
                 IF isNone(deepestRef)
                 THEN [h |-> h, thrown |-> TRUE]
                 ELSE [h |-> JsDelete(h, deepestRef, elem[3]),
                       thrown |-> FALSE]
            ELSE [h |-> h, thrown |-> FALSE]
       ELSE [h |-> h, thrown |-> TRUE]
  ELSE \* `isObject` is here the import of utils/is-changeset (line 2), and
       \* no property of a buffer holds a changeset: the recursive branch
       \* of lines 74-79 is not entered.
       [h |-> h, thrown |-> FALSE]

\* The for-in loop over the properties the copy had when the loop began;
\* a property deleted before its turn is not visited.
RECURSIVE DeleteLoop(_, _, _, _)
DeleteLoop(h, f, elem, props) ==
  IF Len(props) = 0 THEN [h |-> h, thrown |-> FALSE]
  ELSE IF ~ObjHas(h[f], Head(props)) THEN DeleteLoop(h, f, elem, Tail(props))
  ELSE Bind(DeleteProp(h, f, elem, Head(props)),
            LAMBDA r : IF r.thrown THEN r
                       ELSE DeleteLoop(r.h, f, elem, Tail(props)))

\* deleteKeysFromObject(object, key) with the default options: a shallow
\* copy of the object at cell a, with the key deleted from it.
deleteKeysFromObject(h, a, key) ==
  Bind(DeleteLoop(Append(h, h[a]), Len(h) + 1, key, ObjKeys(h[a])),
       LAMBDA r : [h |-> r.h, a |-> Len(h) + 1, thrown |-> r.thrown])

\* ---- helpers of the repository that are not among the sources ----------
\* utils/assign: a fresh object holding the properties of the given ones.
RECURSIVE ObjAssign(_, _)
ObjAssign(o, more) ==
  IF Len(more) = 0 THEN o
  ELSE ObjAssign(ObjPut(o, Head(more).k, Head(more).v), Tail(more))
pureAssign(h, a) == Alloc(h, h[a])
pureAssign2(h, a, b) == Alloc(h, ObjAssign(h[a], h[b]))

\* utils/deep-set: walks the segments from the object at cell a, creates a
\* mapping at every level that holds none, and assigns the last segment.
RECURSIVE deepSet(_, _, _, _)
deepSet(h, a, key, v) ==
  IF Len(key) = 1 THEN [h EXCEPT ![a] = ObjPut(@, key[1], v)]
  ELSE LET cur == ObjGet(h[a], Head(key)) IN
       IF IsRef(cur) THEN deepSet(h, cur.a, Tail(key), v)
       ELSE LET n == Alloc(h, <<>>) IN
            deepSet([n.h EXCEPT ![a] = ObjPut(@, Head(key), R(n.a))],
                    n.a, Tail(key), v)

\* ---- Ember.set(obj, path, value) ---------------------------------------
\* Assigns the last segment on the object the rest of the path leads to,
\* and raises when that path leads to no object.
Front(key) == SubSeq(key, 1, Len(key) - 1)
set(h, a, key, v) ==
  LET parent == get(h, R(a), Front(key)) IN
  IF IsRef(parent)
  THEN [h |-> [h EXCEPT ![parent.a] = ObjPut(@, key[Len(key)], v)],
        thrown |-> FALSE]
  ELSE [h |-> h, thrown |-> TRUE]

\* ---- the changeset ------------------------------------------------------
\* The content object is cell 1 of the heap.  The methods below work on a
\* record m of one changeset's fields while a handler runs:
\*   h  the heap, ch / er  the cells of _changes / _errors, ca  the keys of
\*   _relayCache, thrown  whether the handler has raised, ret  its result.
CONTENT == 1
CHANGES == "_changes"
ERRORS == "_errors"

isEmptyObject(h, a) == Len(h[a]) = 0
isValid(m) == isEmptyObject(m.h, m.er)
isPristine(m) == isEmptyObject(m.h, m.ch)
isInvalid(m) == ~isValid(m)
isDirty(m) == ~isPristine(m)

_deleteKey(m, objName, key) ==
  LET obj == IF objName = CHANGES THEN m.ch ELSE m.er
  IN Bind(deleteKeysFromObject(m.h, obj, key),
          LAMBDA d :
            IF d.thrown THEN [m EXCEPT !.h = d.h, !.thrown = TRUE]
            ELSE IF ~isEqual(R(obj), R(d.a))
            THEN IF objName = CHANGES
                 THEN [m EXCEPT !.h = d.h, !.ch = d.a]
                 ELSE [m EXCEPT !.h = d.h, !.er = d.a]
            ELSE [m EXCEPT !.h = d.h])

RECURSIVE _recursivelyGet(_, _, _)
_recursivelyGet(h, key, obj) ==
  IF Len(key) = 1 THEN JsProp(h, obj, key[1])
  ELSE Bind(JsProp(h, obj, Head(key)),
            LAMBDA next : IF isNone(next) THEN Undef
                          ELSE _recursivelyGet(h, Tail(key), next))

\* _relayFor(key) without invalidation: the cached relay, or a new one
\* that enters the cache.
_relayFor(m, c, key) ==
  [m |-> [m EXCEPT !.ca = @ \cup {key}], v |-> RelayV(c, key)]

valueFor(m, c, key) ==
  LET error == _recursivelyGet(m.h, key, R(m.er))
      change == _recursivelyGet(m.h, key, R(m.ch))
      oldValue == get(m.h, R(CONTENT), key)
  IN IF ~isNone(error) THEN [m |-> m, v |-> get(m.h, error, <<"value">>)]
     ELSE IF key \in m.ca THEN _relayFor(m, c, key)
     ELSE IF ~isNone(change) THEN [m |-> m, v |-> change]
     ELSE IF hasOwnProperty(m.h, m.ch, key)
     THEN [m |-> m, v |-> get(m.h, R(m.ch), key)]
     ELSE IF isObject(oldValue) THEN _relayFor(m, c, key)
     ELSE [m |-> m, v |-> oldValue]

\* addError(key, options)
\* In the result of Wrapped, m is the changeset after lines 424-427 and v
\* the options they leave.
Wrapped(rd, options) ==
  [m |-> [rd.m EXCEPT !.h = Append(@, <<[k |-> "value", v |-> rd.v],
                                       [k |-> "validation", v |-> options]>>)],
   v |-> R(Len(rd.m.h) + 1)]
\* addError without the eviction of line 429.
addError_noEvict(m, c, key, options) ==
  LET errors == m.er IN
  Bind(IF ~isObject(options)
       THEN Bind(valueFor(m, c, key), LAMBDA rd : Wrapped(rd, options))
       ELSE [m |-> m, v |-> options],
       LAMBDA o : [o.m EXCEPT !.h = deepSet(o.m.h, errors, key, o.v),
                              !.ret = o.v])
addError(m, c, key, options) ==
  LET errors == m.er IN
  Bind(IF ~isObject(options)
       THEN Bind(valueFor(m, c, key), LAMBDA rd : Wrapped(rd, options))
       ELSE [m |-> m, v |-> options],
       LAMBDA o :
         Bind(_deleteKey(o.m, CHANGES, key),
              LAMBDA m2 :
                IF m2.thrown THEN m2
                ELSE [m2 EXCEPT !.h = deepSet(m2.h, errors, key, o.v),
                                !.ret = o.v]))

\* _validate(key, newValue, oldValue), `raw` being what the validator
\* function returned.
isBlank(v) == isEmpty(v) \/ (IsString(v) /\ v.s = " ")
\* _validate without the isPresent test of line 617.
_validate_asIs(raw) == raw
_validate(raw) == IF ~isBlank(raw) THEN raw ELSE True

\* _setProperty(validation, { key, value, oldValue })
_setProperty(m, c, validation, key, value, oldValue) ==
  LET changes == m.ch
      isSingleValidationArray ==
        isArray(validation) /\ Len(validation.l) = 1 /\ validation.l[1] = "true"
  IN IF validation = True \/ isSingleValidationArray
     THEN Bind(_deleteKey(m, ERRORS, key),
               LAMBDA m1 :
                 IF m1.thrown THEN m1
                 ELSE IF ~isEqual(oldValue, value)
                 THEN [m1 EXCEPT !.h = deepSet(m1.h, changes, key, value),
                                 !.ret = value]
                 ELSE IF hasOwnProperty(m1.h, changes, key)
                 THEN [_deleteKey(m1, CHANGES, key) EXCEPT !.ret = value]
                 ELSE [m1 EXCEPT !.ret = value])
     ELSE addError([m EXCEPT !.h = Append(@, <<[k |-> "value", v |-> value],
                                               [k |-> "validation",
                                                v |-> validation]>>)],
                   c, key, R(Len(m.h) + 1))

\* _setIsValidating(key, value) on the object m.run, whose properties are
\* numbers.  Ember get and set take the key as a path: a key of several
\* segments finds nothing, and set raises as no object is at its parent
\* path.
Count(run, key) ==
  IF Len(key) = 1 /\ ObjHas(run, key[1]) THEN ObjGet(run, key[1]) ELSE 0
\* _setIsValidating that keeps a count of zero instead of deleting it.
_setIsValidating_keepZero(m, key, value) ==
  LET count == Count(m.run, key) IN
  IF Len(key) # 1 THEN [m EXCEPT !.thrown = TRUE]
  ELSE [m EXCEPT !.run = ObjPut(@, key[1], IF value THEN count + 1
                                           ELSE count - 1)]
_setIsValidating(m, key, value) ==
  LET count == Count(m.run, key) IN
  IF ~value /\ count = 1
  THEN [m EXCEPT !.run = ObjDelete(@, key[1])]
  ELSE IF Len(key) # 1 THEN [m EXCEPT !.thrown = TRUE]
  ELSE [m EXCEPT !.run = ObjPut(@, key[1], IF value THEN count + 1
                                           ELSE count - 1)]

\* isValidating(key); an empty key stands for no key.
isValidating(run, key) ==
  IF key # <<>> THEN Len(key) = 1 /\ ObjHas(run, key[1]) ELSE Len(run) > 0

\* trigger(name, key).  The event is recorded with what a listener can see
\* of the changeset as it fires: the running count of the key and whether
\* the changeset is pristine and valid.
BEFORE_VALIDATION_EVENT == "beforeValidation"
AFTER_VALIDATION_EVENT == "afterValidation"
trigger(m, name, key) ==
  [m EXCEPT !.ev = Append(@, [name |-> name, key |-> key,
                              count |-> Count(m.run, key),
                              pristine |-> isPristine(m),
                              valid |-> isValid(m)])]

\* validateAndSet(key, value) with a validator that answers at once.
\* With skipValidate the call of line 534 passes `true` and no oldValue.
validateAndSet(m, c, skip, key, value, raw) ==
  LET oldValue == get(m.h, R(CONTENT), key) IN
  IF skip THEN _setProperty(m, c, True, key, value, Undef)
  ELSE _setProperty(trigger(trigger(m, BEFORE_VALIDATION_EVENT, key),
                            AFTER_VALIDATION_EVENT, key),
                    c, _validate(raw), key, value, oldValue)

\* validateAndSet(key, value) with a validator that answers with a promise
\* (lines 539-547, up to `then`): the result is the promise `then` makes.
PromiseV == [t |-> "promise", s |-> "", a |-> 0, l |-> <<>>]
validateAndSetAsync(m, c, skip, key, value) ==
  IF skip THEN _setProperty(m, c, True, key, value, Undef)
  ELSE Bind(_setIsValidating(m, key, TRUE),
            LAMBDA m1 :
              IF m1.thrown THEN m1
              ELSE [trigger(m1, BEFORE_VALIDATION_EVENT, key)
                      EXCEPT !.ret = PromiseV])

\* The callback without the trigger of line 545.
validated_noEvent(m, c, key, value, oldValue, resolvedValidation) ==
  Bind(_setIsValidating(m, key, FALSE),
       LAMBDA m1 :
         IF m1.thrown THEN m1
         ELSE _setProperty(m1, c, resolvedValidation, key, value, oldValue))
\* The callback without the _setProperty of line 546: a result dropped.
validated_dropped(m, c, key, value, oldValue, resolvedValidation) ==
  Bind(_setIsValidating(m, key, FALSE),
       LAMBDA m1 :
         IF m1.thrown THEN m1 ELSE trigger(m1, AFTER_VALIDATION_EVENT, key))
\* The callback without the _setIsValidating(key, false) of line 544.
validated_keepCount(m, c, key, value, oldValue, resolvedValidation) ==
  _setProperty(trigger(m, AFTER_VALIDATION_EVENT, key),
               c, resolvedValidation, key, value, oldValue)

\* The callback given to `then` in line 543, the promise being fulfilled
\* with resolvedValidation.
validated(m, c, key, value, oldValue, resolvedValidation) ==
  Bind(_setIsValidating(m, key, FALSE),
       LAMBDA m1 :
         IF m1.thrown THEN m1
         ELSE _setProperty(trigger(m1, AFTER_VALIDATION_EVENT, key),
                           c, resolvedValidation, key, value, oldValue))

\* The validator's promise rejected, had `then` been given a callback that
\* settles the running count.
validationRejected_settled(m, key, reason) ==
  [_setIsValidating(m, key, FALSE) EXCEPT !.ret = Rejected(reason)]

\* The validator's promise is rejected: `then` (line 541) was given no
\* callback for that, so nothing runs and the promise it made rejects with
\* the same reason.
validationRejected(m, key, reason) == [m EXCEPT !.ret = Rejected(reason)]

\* pushErrors(key, ...newErrors); newErrors is a sequence of strings.
Spread(v) ==
  IF isArray(v) THEN v.l ELSE IF v = P(" ") THEN <<" ">> ELSE <<>>
\* Lines 446-448: the error found at the key or a new empty one, and the
\* value it is given.  In the result, e is existingError.
Existing(m, c, key) ==
  LET found == get(m.h, R(m.er), key)
      h0 == IF Truthy(found) THEN m.h
            ELSE Append(m.h, <<[k |-> "validation", v |-> Arr(<<>>)],
                               [k |-> "value", v |-> Null]>>)
      e == IF Truthy(found) THEN found ELSE R(Len(m.h) + 1)
      value == JsProp(h0, e, "value")
  IN IF Truthy(value) THEN [m |-> [m EXCEPT !.h = h0], e |-> e, value |-> value]
     ELSE Bind(valueFor([m EXCEPT !.h = h0], c, key),
               LAMBDA rd : [m |-> rd.m, e |-> e, value |-> rd.v])
\* Lines 450-452: a validation that is not an array is put into one, in the
\* error object itself.
Promoted(h, e) ==
  LET validation == JsProp(h, e, "validation") IN
  IF ~isArray(validation) /\ isPresent(validation) /\ IsRef(e)
  THEN [h EXCEPT ![e.a] = ObjPut(@, "validation", Arr(<<validation.s>>))]
  ELSE h
\* Lines 454-460, the spread of line 454 raising on what cannot be iterated.
Pushed(m, errors, key, value, current, newErrors) ==
  IF ~(isArray(current) \/ IsString(current)) THEN [m EXCEPT !.thrown = TRUE]
  ELSE Bind(_deleteKey(m, CHANGES, key),
            LAMBDA m3 :
              IF m3.thrown THEN m3
              ELSE Bind(set(Append(m3.h, <<[k |-> "value", v |-> value],
                                           [k |-> "validation",
                                            v |-> Arr(Spread(current) \o newErrors)]>>),
                            errors, key, R(Len(m3.h) + 1)),
                        LAMBDA st :
                          IF st.thrown THEN [m3 EXCEPT !.thrown = TRUE]
                          ELSE [m3 EXCEPT !.h = st.h, !.ret = R(Len(m3.h) + 1)]))
pushErrors(m, c, key, newErrors) ==
  LET errors == m.er IN
  Bind(Existing(m, c, key),
       LAMBDA x :
         Bind(Promoted(x.m.h, x.e),
              LAMBDA h2 :
                Pushed([x.m EXCEPT !.h = h2], errors, key, x.value,
                       JsProp(h2, x.e, "validation"), newErrors)))

\* validate() with no key.  validationMap is the sequence of its keys and
\* answers[i] what the validator returns for the i-th: a value, or PromiseV
\* for a promise.  In x, m is the changeset and started the validations
\* now in flight; a call that raises ends the map.
\* A validation in flight keeps what its callback closes over; an object
\* oldValue is kept as such, not by its cell; `at` is the number of calls
\* made before the one that started it, set by that call.  The values validated in the
\* specifications below are strings and relays, never objects of the heap.
InFlight(c, key, value, oldValue, ofBatch) ==
  [c |-> c, key |-> key, value |-> value, oldValue |-> oldValue,
   batch |-> ofBatch, at |-> 0, crossed |-> FALSE]
RECURSIVE validateEach(_, _, _, _, _)
validateEach(x, c, skip, validationMap, answers) ==
  IF Len(validationMap) = 0 \/ x.m.thrown THEN x
  ELSE LET validationKey == Head(validationMap) IN
       Bind(valueFor(x.m, c, validationKey),
            LAMBDA rd :
              Bind(IF Head(answers) = PromiseV
                   THEN validateAndSetAsync(rd.m, c, skip, validationKey, rd.v)
                   ELSE validateAndSet(rd.m, c, skip, validationKey, rd.v,
                                       Head(answers)),
                   LAMBDA m1 :
                     validateEach(
                       [m |-> m1,
                        started |->
                          IF ~m1.thrown /\ m1.ret = PromiseV
                          THEN Append(x.started,
                                      InFlight(c, validationKey, rd.v,
                                               Seen(get(rd.m.h, R(CONTENT),
                                                        validationKey)),
                                               TRUE))
                          ELSE x.started],
                       c, skip, Tail(validationMap), Tail(answers))))
validate(m, c, skip, validationMap, answers) ==
  IF Len(validationMap) = 0
  THEN [m |-> [m EXCEPT !.ret = PromiseV], started |-> <<>>]
  ELSE Bind(validateEach([m |-> m, started |-> <<>>], c, skip,
                         validationMap, answers),
            LAMBDA x : [x EXCEPT !.m.ret = PromiseV])

\* prepare(prepareChangesFn).  The callback is one of: "same" returns the
\* copy it was given, "fixed" returns a new mapping {name: 'b'}, "string"
\* returns the string 'foo'.
prepare(m, c, fn) ==
  LET copy == pureAssign(m.h, m.ch)
      made == Alloc(copy.h, <<[k |-> "name", v |-> P("b")]>>)
      preparedChanges == IF fn = "same" THEN R(copy.a)
                         ELSE IF fn = "fixed" THEN R(made.a)
                         ELSE P("foo")
  IN IF ~isObject(preparedChanges) THEN [m EXCEPT !.thrown = TRUE]
     ELSE [m EXCEPT !.h = made.h, !.ch = preparedChanges.a, !.ret = This(c)]

\* Ember.setProperties(content, changes): one assignment per own property
\* of the changes object, in its order.
RECURSIVE setProperties(_, _, _)
setProperties(h, a, props) ==
  IF Len(props) = 0 THEN h
  ELSE setProperties([h EXCEPT ![a] = ObjPut(@, Head(props).k, Head(props).v)],
                     a, Tail(props))

\* execute without the isValid test of line 269.
execute_ifDirty(m, c) ==
  IF isDirty(m)
  THEN [m EXCEPT !.h = setProperties(m.h, CONTENT, m.h[m.ch]), !.ret = This(c)]
  ELSE [m EXCEPT !.ret = This(c)]
\* execute that empties the changes buffer once they are applied.
execute_cleared(m, c) ==
  IF isValid(m) /\ isDirty(m)
  THEN LET c1 == Alloc(setProperties(m.h, CONTENT, m.h[m.ch]), <<>>)
       IN [m EXCEPT !.h = c1.h, !.ch = c1.a, !.ret = This(c)]
  ELSE [m EXCEPT !.ret = This(c)]
execute(m, c) ==
  IF isValid(m) /\ isDirty(m)
  THEN [m EXCEPT !.h = setProperties(m.h, CONTENT, m.h[m.ch]), !.ret = This(c)]
  ELSE [m EXCEPT !.ret = This(c)]

\* rollback without line 313.
rollback_changesOnly(m, c) ==
  LET c1 == Alloc(m.h, <<>>)
  IN [m EXCEPT !.h = c1.h, !.ch = c1.a, !.ret = This(c)]
rollback(m, c) ==
  LET c1 == Alloc(m.h, <<>>)
      c2 == Alloc(c1.h, <<>>)
  IN [m EXCEPT !.h = c2.h, !.ch = c1.a, !.er = c2.a, !.ret = This(c)]

\* cast(allowed); allowed is a sequence of property names.
includes(list, n) == \E i \in 1..Len(list) : list[i] = n
take(o, list) == SelectSeq(o, LAMBDA e : includes(list, e.k))
\* cast without the filter of line 512: every change is kept.
cast_keepAll(m, c, allowed) ==
  IF Len(allowed) = 0 THEN [m EXCEPT !.ret = R(m.ch)]
  ELSE LET casted == Alloc(m.h, m.h[m.ch])
       IN [m EXCEPT !.h = casted.h, !.ch = casted.a, !.ret = This(c)]
cast(m, c, allowed) ==
  IF Len(allowed) = 0 THEN [m EXCEPT !.ret = R(m.ch)]
  ELSE LET validKeys == SelectSeq(ObjKeys(m.h[m.ch]),
                                  LAMBDA n : includes(allowed, n))
           casted == Alloc(m.h, take(m.h[m.ch], validKeys))
       IN [m EXCEPT !.h = casted.h, !.ch = casted.a, !.ret = This(c)]

\* snapshot(): a new object {changes, errors} holding a copy of each buffer.
snapshot(m, c) ==
  LET c1 == pureAssign(m.h, m.ch)
      c2 == pureAssign(c1.h, m.er)
      o == Alloc(c2.h, <<[k |-> "changes", v |-> R(c1.a)],
                         [k |-> "errors", v |-> R(c2.a)]>>)
  IN [m EXCEPT !.h = o.h, !.ret = R(o.a)]

\* restore({ changes, errors }), given the snapshot object at cell s.
restore(m, c, s) ==
  [m EXCEPT !.ch = ObjGet(m.h[s], "changes").a,
            !.er = ObjGet(m.h[s], "errors").a,
            !.ret = This(c)]

\* merge(changeset) on changeset c.  The argument is a value: This(b) for a
\* changeset over this content, Foreign for a changeset over another
\* content object, anything else for what is no changeset.  B holds the
\* cells of the argument's buffers, n is the number the new changeset gets.
\* In the result, ch and er are the cells of the new changeset's buffers,
\* 0 when none was made.
Foreign == This(0)
objectWithout(list, o) == SelectSeq(o, LAMBDA e : ~includes(list, e.k))
NoNew(m) == [m |-> m, ch |-> 0, er |-> 0]
\* merge without the assertions of lines 342-343: given what is no changeset
\* over this content it returns the changeset itself.
merge_unasserted(m, c, changeset, B, n) ==
  IF ~isChangeset(changeset) \/ changeset = Foreign
  THEN NoNew([m EXCEPT !.ret = This(c)])
  ELSE IF isPristine(m) /\ isEmptyObject(m.h, B.ch)
  THEN NoNew([m EXCEPT !.ret = This(c)])
  ELSE LET newErrors == Alloc(m.h, objectWithout(ObjKeys(m.h[B.ch]), m.h[m.er]))
           newChanges == Alloc(newErrors.h,
                               objectWithout(ObjKeys(m.h[B.er]), m.h[m.ch]))
           mergedChanges == pureAssign2(newChanges.h, newChanges.a, B.ch)
           mergedErrors == pureAssign2(mergedChanges.h, newErrors.a, B.er)
       IN [m |-> [m EXCEPT !.h = mergedErrors.h, !.ret = This(n)],
           ch |-> mergedChanges.a, er |-> mergedErrors.a]
merge(m, c, changeset, B, n) ==
  IF ~isChangeset(changeset) THEN NoNew([m EXCEPT !.thrown = TRUE])
  ELSE IF changeset = Foreign THEN NoNew([m EXCEPT !.thrown = TRUE])
  ELSE IF isPristine(m) /\ isEmptyObject(m.h, B.ch)
  THEN NoNew([m EXCEPT !.ret = This(c)])
  ELSE LET newErrors == Alloc(m.h, objectWithout(ObjKeys(m.h[B.ch]), m.h[m.er]))
           newChanges == Alloc(newErrors.h,
                               objectWithout(ObjKeys(m.h[B.er]), m.h[m.ch]))
           mergedChanges == pureAssign2(newChanges.h, newChanges.a, B.ch)
           mergedErrors == pureAssign2(mergedChanges.h, newErrors.a, B.er)
       IN [m |-> [m EXCEPT !.h = mergedErrors.h, !.ret = This(n)],
           ch |-> mergedChanges.a, er |-> mergedErrors.a]

\* Lines 296-299 when the promise rejects: `then` is given one callback,
\* for fulfilment, so nothing runs and the promise save returned rejects
\* with the same reason.
\* The same with a rollback on rejection.
saveRejected_rollback(m, c, reason) ==
  [rollback(m, c) EXCEPT !.ret = Rejected(reason)]
saveRejected(m, c, reason) == [m EXCEPT !.ret = Rejected(reason)]

\* ---- state --------------------------------------------------------------
\* Changesets are numbered; changes[c] = 0 says changeset c does not exist.
VARIABLES
  heap,          \* the objects
  changes,       \* changeset -> cell of its _changes
  errors,        \* changeset -> cell of its _errors
  cache,         \* changeset -> keys of its _relayCache
  skipValidate,  \* changeset -> its skipValidate option
  validationMapOf, \* changeset -> the keys of the validationMap it was made with
  snap,          \* cell of the snapshot object the caller holds, 0 if none
  savedWith,     \* the options of each call of content.save, in order
  saves,         \* the save promises not yet settled
  running,       \* changeset -> its _runningValidations
  inflight,      \* the validations whose promise is not yet settled
  batch,         \* the promise of the latest validate(): none, pending, ...
  last,          \* the latest call: what it was given and how it ended
  nops,          \* the number of calls made
  limit          \* the number of calls a behaviour may make
vars == <<heap, changes, errors, cache, skipValidate, validationMapOf, snap, savedWith, saves,
          running, inflight, batch, last, nops, limit>>

MaxOps == 3
MaxSaves == 1
CS == 1..3

\* ---- renaming of cells --------------------------------------------------
\* After each call the cells no root reaches are dropped and the others
\* renumbered in order; the object graph is unchanged.
RefsOf(o) == {o[i].v.a : i \in {j \in 1..Len(o) : IsRef(o[j].v)}}
RECURSIVE Reach(_, _)
Reach(h, S) ==
  Bind(S \cup UNION {RefsOf(h[a]) : a \in S},
       LAMBDA N : IF N = S THEN S ELSE Reach(h, N))
Ranks(h, S) == [a \in 0..Len(h) |-> Cardinality({b \in S : b <= a})]
Order(h, S) == SelectSeq([i \in 1..Len(h) |-> i], LAMBDA a : a \in S)
Renamed(v, rk) == IF IsRef(v) THEN R(rk[v.a]) ELSE v
Compact(h, ord, rk) ==
  [i \in 1..Len(ord) |->
     LET o == h[ord[i]]
     IN [j \in 1..Len(o) |-> [k |-> o[j].k, v |-> Renamed(o[j].v, rk)]]]

Cur == [heap |-> heap, changes |-> changes, errors |-> errors,
        cache |-> cache, snap |-> snap, last |-> last]
RefOf(v) == IF IsRef(v) THEN {v.a} ELSE {}
Roots(N) ==
  ({CONTENT, N.snap} \cup {N.changes[c] : c \in CS}
   \cup {N.errors[c] : c \in CS}
   \cup RefOf(N.last.val) \cup RefOf(N.last.ret)) \ {0}
InstallAs(N, ord, rk) ==
  /\ heap' = Compact(N.heap, ord, rk)
  /\ changes' = [c \in CS |-> rk[N.changes[c]]]
  /\ errors' = [c \in CS |-> rk[N.errors[c]]]
  /\ cache' = N.cache
  /\ snap' = rk[N.snap]
  /\ last' = [N.last EXCEPT !.val = Renamed(@, rk), !.ret = Renamed(@, rk)]
InstallOn(N, S) == InstallAs(N, Order(N.heap, S), Ranks(N.heap, S))
Install(N) == InstallOn(N, Reach(N.heap, Roots(N)))

Mach(c) == [h |-> heap, ch |-> changes[c], er |-> errors[c], ca |-> cache[c],
            run |-> running[c], ev |-> <<>>, thrown |-> FALSE, ret |-> Undef]
\* The record of a call.  `old` is the content's value at the key when the
\* call was made (an object is recorded as such, not by its cell), `had`
\* whether the changes buffer then held the key, `fired` the events the
\* call triggered, in order; for a validation that has ended, `issued` is
\* the number of calls made before the write that started it (for a save
\* that has ended, before the call of save) and `crossed`
\* whether a rollback was called while it was in flight.
Call(op, c, key, val, raw, m) ==
  [op |-> op, c |-> c, key |-> key, val |-> val, raw |-> raw,
   old |-> Seen(get(heap, R(CONTENT), key)),
   had |-> key # <<>> /\ HasPath(heap, R(changes[c]), key),
   fired |-> m.ev, issued |-> 0, crossed |-> FALSE,
   thrown |-> m.thrown, ret |-> IF m.thrown THEN Undef ELSE m.ret]
After(c, m, call) ==
  [Cur EXCEPT !.heap = m.h, !.changes[c] = m.ch, !.errors[c] = m.er,
              !.cache[c] = m.ca, !.last = call]
\* The call of op on changeset c has ended as m says.
Done(c, m, op, key, val, raw) ==
  Install(After(c, m, Call(op, c, key, val, raw, m)))
Step(c) == changes[c] # 0 /\ nops < limit /\ nops' = nops + 1 /\ limit' = limit

\* ---- the content and the initial state ----------------------------------
\* content = {name: 'a', org: {usa: {ca: 'a', ny: 'a'}}}; changeset 1 over
\* it, with empty buffers.
InitHeap ==
  << <<[k |-> "name", v |-> P("a")], [k |-> "org", v |-> R(2)]>>,
     <<[k |-> "usa", v |-> R(3)]>>,
     <<[k |-> "ca", v |-> P("a")], [k |-> "ny", v |-> P("a")]>>,
     <<>>,
     <<>> >>
NoCall == [op |-> "new", c |-> 1, key |-> <<>>, val |-> Undef, raw |-> Undef,
           old |-> Undef, had |-> FALSE, fired |-> <<>>, issued |-> 0,
           crossed |-> FALSE,
           thrown |-> FALSE, ret |-> Undef]
InitOne ==
  /\ heap = InitHeap
  /\ changes = [c \in CS |-> IF c = 1 THEN 4 ELSE 0]
  /\ errors = [c \in CS |-> IF c = 1 THEN 5 ELSE 0]
  /\ cache = [c \in CS |-> {}]
  /\ skipValidate = [c \in CS |-> FALSE]
  /\ validationMapOf = [c \in CS |-> <<>>]
  /\ snap = 0
  /\ savedWith = <<>>
  /\ saves = <<>>
  /\ running = [c \in CS |-> <<>>]
  /\ inflight = <<>>
  /\ batch = "none"
  /\ last = NoCall
  /\ nops = 0

\* ---- the calls ----------------------------------------------------------
\* A written value R(0) stands for a new object literal {ca: 'b'}.
Literal == <<[k |-> "ca", v |-> P("b")]>>
Given(m, val) ==
  IF val = R(0)
  THEN LET n == Alloc(m.h, Literal) IN [m |-> [m EXCEPT !.h = n.h], v |-> R(n.a)]
  ELSE [m |-> m, v |-> val]

\* changeset.set(key, val), the validator returning raw
Write(c, key, val, raw) ==
  /\ Step(c)
  /\ \E g \in {Given(Mach(c), val)} :
       \E m \in {validateAndSet(g.m, c, skipValidate[c], key, g.v, raw)} :
         Done(c, m, "write", key, g.v, raw)
  /\ UNCHANGED <<skipValidate, validationMapOf, savedWith, saves, running, inflight, batch>>

\* changeset.get(key)
Read(c, key) ==
  /\ Step(c)
  /\ \E rd \in {valueFor(Mach(c), c, key)} :
       Done(c, [rd.m EXCEPT !.ret = rd.v], "read", key, Undef, Undef)
  /\ UNCHANGED <<skipValidate, validationMapOf, savedWith, saves, running, inflight, batch>>

AddError(c, key, options) ==
  /\ Step(c)
  /\ \E m \in {addError(Mach(c), c, key, options)} :
       Done(c, m, "addError", key, options, Undef)
  /\ UNCHANGED <<skipValidate, validationMapOf, savedWith, saves, running, inflight, batch>>

PushErrors(c, key, newErrors) ==
  /\ Step(c)
  /\ \E m \in {pushErrors(Mach(c), c, key, newErrors)} :
       Done(c, m, "pushErrors", key, Arr(newErrors), Undef)
  /\ UNCHANGED <<skipValidate, validationMapOf, savedWith, saves, running, inflight, batch>>

Prepare(c, fn) ==
  /\ Step(c)
  /\ \E m \in {prepare(Mach(c), c, fn)} :
       Done(c, m, "prepare", <<>>, P(fn), Undef)
  /\ UNCHANGED <<skipValidate, validationMapOf, savedWith, saves, running, inflight, batch>>

Cast(c, allowed) ==
  /\ Step(c)
  /\ \E m \in {cast(Mach(c), c, allowed)} :
       Done(c, m, "cast", <<>>, Arr(allowed), Undef)
  /\ UNCHANGED <<skipValidate, validationMapOf, savedWith, saves, running, inflight, batch>>

Execute(c) ==
  /\ Step(c)
  /\ \E m \in {execute(Mach(c), c)} :
       Done(c, m, "execute", <<>>, Undef, Undef)
  /\ UNCHANGED <<skipValidate, validationMapOf, savedWith, saves, running, inflight, batch>>

Crossed(c) ==
  [i \in 1..Len(inflight) |->
     IF inflight[i].c = c THEN [inflight[i] EXCEPT !.crossed = TRUE]
     ELSE inflight[i]]
Rollback(c) ==
  /\ Step(c)
  /\ \E m \in {rollback(Mach(c), c)} :
       Done(c, m, "rollback", <<>>, Undef, Undef)
  /\ inflight' = Crossed(c)
  /\ UNCHANGED <<skipValidate, validationMapOf, savedWith, saves, running, batch>>

Snapshot(c) ==
  /\ Step(c)
  /\ \E m \in {snapshot(Mach(c), c)} :
       Install([After(c, m, Call("snapshot", c, <<>>, Undef, Undef, m))
                  EXCEPT !.snap = m.ret.a])
  /\ UNCHANGED <<skipValidate, validationMapOf, savedWith, saves, running, inflight, batch>>

Restore(c) ==
  /\ Step(c)
  /\ snap # 0
  /\ \E m \in {restore(Mach(c), c, snap)} :
       Done(c, m, "restore", <<>>, Undef, Undef)
  /\ UNCHANGED <<skipValidate, validationMapOf, savedWith, saves, running, inflight, batch>>

\* save(options) up to the promise it returns: execute(), then content.save
\* if the content has one (contentSaves).  The promise is content.save's,
\* or one already fulfilled with the changeset; `at` is the number of calls
\* made before this one.
Save(c, options, contentSaves) ==
  /\ Step(c)
  /\ Len(saves) < MaxSaves
  /\ \E m \in {execute(Mach(c), c)} :
       Done(c, m, "save", <<>>, P(options), Undef)
  /\ savedWith' = IF contentSaves THEN Append(savedWith, options) ELSE savedWith
  /\ saves' = Append(saves, [c |-> c, own |-> ~contentSaves, at |-> nops])
  /\ UNCHANGED <<skipValidate, validationMapOf, running, inflight, batch>>

\* The promise of the i-th pending save is fulfilled (with `result` when it
\* is content.save's): the callback of line 296 rolls back and hands the
\* result on.
SaveResolved(i, result) ==
  /\ i \in 1..Len(saves)
  /\ Step(saves[i].c)
  /\ \E m \in {rollback(Mach(saves[i].c), saves[i].c)} :
       Install(After(saves[i].c, m,
                     [Call("saved", saves[i].c, <<>>, Undef, Undef, m)
                        EXCEPT !.ret = IF saves[i].own THEN This(saves[i].c)
                                       ELSE P(result),
                               !.issued = saves[i].at]))
  /\ saves' = SubSeq(saves, 1, i - 1) \o SubSeq(saves, i + 1, Len(saves))
  /\ UNCHANGED <<skipValidate, validationMapOf, savedWith, running, inflight, batch>>

\* The promise of the i-th pending save, content.save's, is rejected with
\* `reason`.
SaveRejected(i, reason) ==
  /\ i \in 1..Len(saves)
  /\ ~saves[i].own
  /\ Step(saves[i].c)
  /\ \E m \in {saveRejected(Mach(saves[i].c), saves[i].c, reason)} :
       Done(saves[i].c, m, "saveRejected", <<>>, P(reason), Undef)
  /\ saves' = SubSeq(saves, 1, i - 1) \o SubSeq(saves, i + 1, Len(saves))
  /\ UNCHANGED <<skipValidate, validationMapOf, savedWith, running, inflight, batch>>

\* changeset.set(key, val), the validator returning a promise.
MaxInflight == 2
WriteAsync(c, key, val) ==
  /\ Step(c)
  /\ Len(inflight) < MaxInflight
  /\ \E m \in {validateAndSetAsync(Mach(c), c, skipValidate[c], key, val)} :
       /\ Done(c, m, "writeAsync", key, val, PromiseV)
       /\ running' = [running EXCEPT ![c] = m.run]
       /\ inflight' = IF ~m.thrown /\ m.ret = PromiseV
                      THEN Append(inflight,
                                  [InFlight(c, key, val,
                                            Seen(get(heap, R(CONTENT), key)),
                                            FALSE)
                                     EXCEPT !.at = nops])
                      ELSE inflight
  /\ UNCHANGED <<skipValidate, validationMapOf, savedWith, saves, batch>>

\* The promise of RSVP.all (line 388) after the i-th validation in flight
\* has ended: rejected as soon as one of its promises is, fulfilled when
\* none is left.
Without(q, i) == SubSeq(q, 1, i - 1) \o SubSeq(q, i + 1, Len(q))
all(i, failed) ==
  IF ~inflight[i].batch \/ batch # "pending" THEN batch
  ELSE IF failed THEN "rejected"
  ELSE IF \E j \in 1..Len(inflight) : j # i /\ inflight[j].batch THEN "pending"
  ELSE "fulfilled"

\* The validator's promise of the i-th validation in flight is fulfilled
\* with raw: the callback of line 543 runs.
ValidationResolved(i, raw) ==
  /\ i \in 1..Len(inflight)
  /\ Step(inflight[i].c)
  /\ \E e \in {inflight[i]} :
       \E m \in {validated(Mach(e.c), e.c, e.key, e.value, e.oldValue, raw)} :
         /\ Install(After(e.c, m,
                          [Call("validated", e.c, e.key, e.value, raw, m)
                             EXCEPT !.issued = e.at,
                                    !.crossed = e.crossed]))
         /\ running' = [running EXCEPT ![e.c] = m.run]
         /\ batch' = all(i, m.thrown)
  /\ inflight' = Without(inflight, i)
  /\ UNCHANGED <<skipValidate, validationMapOf, savedWith, saves>>

\* The validator's promise of the i-th validation in flight is rejected.
ValidationRejected(i, reason) ==
  /\ i \in 1..Len(inflight)
  /\ Step(inflight[i].c)
  /\ \E e \in {inflight[i]} :
       \E m \in {validationRejected(Mach(e.c), e.key, reason)} :
         /\ Done(e.c, m, "validationRejected", e.key, e.value, Undef)
         /\ running' = [running EXCEPT ![e.c] = m.run]
  /\ batch' = all(i, TRUE)
  /\ inflight' = Without(inflight, i)
  /\ UNCHANGED <<skipValidate, validationMapOf, savedWith, saves>>

\* changeset.validate() of a changeset made with the keys of validationMap,
\* the validator returning answers[i] for the i-th.
ValidateAll(c, validationMap, answers) ==
  /\ Step(c)
  /\ validationMap = validationMapOf[c]
  /\ Len(answers) = Len(validationMap)
  /\ batch = "none"
  /\ Len(inflight) + Len(validationMap) <= MaxInflight
  /\ \E x \in {validate(Mach(c), c, skipValidate[c], validationMap, answers)} :
       /\ Done(c, x.m, "validate", <<>>, Undef, Undef)
       /\ running' = [running EXCEPT ![c] = x.m.run]
       /\ inflight' = inflight \o
                       [j \in 1..Len(x.started) |->
                          [x.started[j] EXCEPT !.at = nops]]
       /\ batch' = IF x.m.thrown THEN "thrown"
                   ELSE IF Len(x.started) = 0 THEN "fulfilled"
                   ELSE "pending"
  /\ UNCHANGED <<skipValidate, validationMapOf, savedWith, saves>>

\* changeset.validate(key) of a changeset whose validation map is not
\* empty (line 391), the validator returning answer.
ValidateKey(c, key, answer) ==
  /\ Step(c)
  /\ validationMapOf[c] # <<>>
  /\ Len(inflight) < MaxInflight
  /\ \E x \in {validate(Mach(c), c, skipValidate[c], <<key>>, <<answer>>)} :
       /\ Done(c, x.m, "validate", key, Undef, answer)
       /\ running' = [running EXCEPT ![c] = x.m.run]
       /\ inflight' = inflight \o
                       [j \in 1..Len(x.started) |->
                          [x.started[j] EXCEPT !.at = nops, !.batch = FALSE]]
  /\ UNCHANGED <<skipValidate, validationMapOf, savedWith, saves, batch>>

\* What a changeset is made with.  merge makes its changeset with
\* new Changeset(content, get(this, VALIDATOR)) (line 353): validationMap
\* and options are the defaults of line 148, whatever the origin was made
\* with.
defaultOptions == [skipValidate |-> FALSE]
newChangeset_asOrigin(origin) == origin
newChangeset(origin) ==
  [skipValidate |-> defaultOptions.skipValidate, validationMap |-> <<>>]
MadeWith(c) ==
  [skipValidate |-> skipValidate[c], validationMap |-> validationMapOf[c]]

\* a.merge(other), the changeset it makes being numbered n.
BuffersOf(other) ==
  IF isChangeset(other) /\ other.a \in CS
  THEN [ch |-> changes[other.a], er |-> errors[other.a]]
  ELSE [ch |-> 0, er |-> 0]
Merge(a, other, n) ==
  /\ Step(a)
  /\ changes[n] = 0
  /\ (isChangeset(other) /\ other.a \in CS) => (other.a # a /\ changes[other.a] # 0)
  /\ \E x \in {merge(Mach(a), a, other, BuffersOf(other), n)} :
       /\ Install([After(a, x.m, Call("merge", a, <<>>, other, Undef, x.m))
                     EXCEPT !.changes[n] = x.ch, !.errors[n] = x.er])
       /\ \E made \in {IF x.ch = 0 THEN MadeWith(n)
                        ELSE newChangeset(MadeWith(a))} :
            /\ skipValidate' = [skipValidate EXCEPT ![n] = made.skipValidate]
            /\ validationMapOf' =
                 [validationMapOf EXCEPT ![n] = made.validationMap]
  /\ UNCHANGED <<savedWith, saves, running, inflight, batch>>

\* ---- the specification ---------------------------------------------------
\* What the calls of the specifications are given: the value written, the
\* message of an added error and the changeset merged.
Args == [val |-> P("b"), options |-> P("taken"), other |-> This(2)]
Keys == {<<"name">>, <<"org", "usa">>, <<"org", "usa", "ca">>}
Values == {P("a"), P("b"), Null}
Results == {True, P("too short")}

Init == InitOne /\ limit = MaxOps

Next ==
  \/ \E k \in Keys, v \in Values, r \in Results : Write(1, k, v, r)
  \/ \E k \in Keys : Read(1, k)
  \/ \E k \in Keys : AddError(1, k, Args.options)
  \/ \E k \in Keys : PushErrors(1, k, <<"bad">>)
  \/ \E fn \in {"same", "fixed", "string"} : Prepare(1, fn)
  \/ \E allowed \in {<<>>, <<"name">>} : Cast(1, allowed)
  \/ Execute(1)
  \/ Rollback(1)
  \/ \E b \in BOOLEAN : Save(1, "opts", b)
  \/ \E i \in 1..MaxSaves : SaveResolved(i, "saveResult")

Spec == Init /\ [][Next]_vars

\* A second specification: snapshots taken and restored around writes to
\* one nested key.
MaxSnapOps == 6
InitSnap == InitOne /\ limit = MaxSnapOps
NextSnap ==
  \/ \E r \in Results : Write(1, <<"org", "usa", "ca">>, Args.val, r)
  \/ Cast(1, <<"name">>)
  \/ Snapshot(1)
  \/ Restore(1)
SpecSnap == InitSnap /\ [][NextSnap]_vars

\* A third specification: writes under every kind of validator result.
MaxValOps == 2
KeysV == Keys \cup {<<"org", "asia", "sg">>}
ResultsV ==
  {True, Arr(<<"true">>), False, P("too short"), Arr(<<"foo", "bar">>),
   Undef, Null, P(""), P(" "), Arr(<<>>)}
InitV == InitOne /\ limit = MaxValOps
NextV ==
  \/ \E k \in KeysV, r \in ResultsV : Write(1, k, Args.val, r)
  \/ Write(1, <<"org", "usa">>, Null, True)
SpecV == InitV /\ [][NextV]_vars

\* A fourth specification: saves that the content fulfils or rejects, around
\* accepted and rejected writes.
MaxSaveOps == 4
InitSave == InitOne /\ limit = MaxSaveOps
NextSave ==
  \/ \E k \in {<<"name">>, <<"org", "usa", "ca">>}, r \in Results :
       Write(1, k, Args.val, r)
  \/ \E b \in BOOLEAN : Save(1, "opts", b)
  \/ \E i \in 1..MaxSaves : SaveResolved(i, "saveResult")
  \/ \E i \in 1..MaxSaves : SaveRejected(i, "saveError")
SpecSave == InitSave /\ [][NextSave]_vars

\* A fifth specification: rollbacks after reads, writes, added errors and
\* executes.
MaxRbOps == 4
InitRb == InitOne /\ limit = MaxRbOps
NextRb ==
  \/ \E k \in {<<"name">>, <<"org", "usa">>} : Read(1, k)
  \/ \E k \in {<<"name">>, <<"org", "usa">>}, r \in Results :
       Write(1, k, Args.val, r)
  \/ AddError(1, <<"name">>, Args.options)
  \/ Execute(1)
  \/ Rollback(1)
SpecRb == InitRb /\ [][NextRb]_vars

\* A sixth specification: two changesets over the one content, written to
\* and merged, and the changeset the merge makes written to in turn.
MaxMergeOps == 3
KeysM == {<<"name">>, <<"org", "usa", "ca">>, <<"org", "usa", "ny">>}
InitMerge ==
  /\ heap = InitHeap \o << <<>>, <<>> >>
  /\ changes = [c \in CS |-> IF c = 1 THEN 4 ELSE IF c = 2 THEN 6 ELSE 0]
  /\ errors = [c \in CS |-> IF c = 1 THEN 5 ELSE IF c = 2 THEN 7 ELSE 0]
  /\ cache = [c \in CS |-> {}]
  /\ skipValidate = [c \in CS |-> FALSE]
  /\ validationMapOf = [c \in CS |-> <<>>]
  /\ snap = 0
  /\ savedWith = <<>>
  /\ saves = <<>>
  /\ running = [c \in CS |-> <<>>]
  /\ inflight = <<>>
  /\ batch = "none"
  /\ last = NoCall
  /\ nops = 0
  /\ limit = MaxMergeOps
NextMerge ==
  \/ \E c \in CS, k \in KeysM, r \in Results : Write(c, k, Args.val, r)
  \/ \E other \in {This(2), Foreign, R(CONTENT)} : Merge(1, other, 3)
  \/ \E fn \in {"same", "string"} : Prepare(1, fn)
SpecMerge == InitMerge /\ [][NextMerge]_vars

\* A seventh specification: casts after accepted and rejected writes.
MaxCastOps == 4
Allowed == {<<>>, <<"name">>, <<"org", "name">>, <<"age">>}
InitCast == InitOne /\ limit = MaxCastOps
NextCast ==
  \/ \E k \in {<<"name">>, <<"org", "usa", "ca">>}, r \in Results :
       Write(1, k, Args.val, r)
  \/ \E allowed \in Allowed : Cast(1, allowed)
SpecCast == InitCast /\ [][NextCast]_vars

\* An eighth specification: validate() over a map of two keys, one of
\* them nested or both top-level, whose
\* validators answer at once or with a promise, fulfilled or rejected later.
MaxAllOps == 4
ValidationMaps ==
  { << <<"name">>, <<"org", "usa", "ca">> >>, << <<"name">>, <<"org">> >> }
Answers == Results \cup {PromiseV}
InitAll ==
  /\ heap = InitHeap
  /\ changes = [c \in CS |-> IF c = 1 THEN 4 ELSE 0]
  /\ errors = [c \in CS |-> IF c = 1 THEN 5 ELSE 0]
  /\ cache = [c \in CS |-> {}]
  /\ skipValidate = [c \in CS |-> FALSE]
  /\ validationMapOf \in
       {[c \in CS |-> IF c = 1 THEN vm ELSE <<>>] : vm \in ValidationMaps}
  /\ snap = 0
  /\ savedWith = <<>>
  /\ saves = <<>>
  /\ running = [c \in CS |-> <<>>]
  /\ inflight = <<>>
  /\ batch = "none"
  /\ last = NoCall
  /\ nops = 0
  /\ limit = MaxAllOps
NextAll ==
  \/ \E r \in Results : Write(1, <<"name">>, Args.val, r)
  \/ \E vm \in ValidationMaps, a1 \in Answers, a2 \in Answers :
       ValidateAll(1, vm, <<a1, a2>>)
  \/ \E k \in {<<"name">>, <<"org">>}, a \in Answers : ValidateKey(1, k, a)
  \/ \E i \in 1..MaxInflight, r \in Results : ValidationResolved(i, r)
  \/ \E i \in 1..MaxInflight : ValidationRejected(i, "validatorError")
SpecAll == InitAll /\ [][NextAll]_vars

\* A ninth specification: writes whose validator answers with a promise
\* that is fulfilled later, in any order, among writes validated at once
\* and rollbacks; the changeset is made with or without skipValidate.
MaxAsyncOps == 4
KeysA == {<<"name">>, <<"org">>, <<"org", "usa", "ca">>}
WritesA ==
  {[key |-> k, val |-> P("b")] : k \in KeysA}
    \cup {[key |-> <<"name">>, val |-> v] : v \in {P("a"), P("c")}}
InitAsync ==
  /\ heap = InitHeap
  /\ changes = [c \in CS |-> IF c = 1 THEN 4 ELSE 0]
  /\ errors = [c \in CS |-> IF c = 1 THEN 5 ELSE 0]
  /\ cache = [c \in CS |-> {}]
  /\ skipValidate \in {[c \in CS |-> b /\ c = 1] : b \in BOOLEAN}
  /\ validationMapOf = [c \in CS |-> <<>>]
  /\ snap = 0
  /\ savedWith = <<>>
  /\ saves = <<>>
  /\ running = [c \in CS |-> <<>>]
  /\ inflight = <<>>
  /\ batch = "none"
  /\ last = NoCall
  /\ nops = 0
  /\ limit = MaxAsyncOps
NextAsync ==
  \/ \E k \in {<<"name">>, <<"org", "usa", "ca">>}, r \in Results :
       Write(1, k, Args.val, r)
  \/ \E w \in WritesA : WriteAsync(1, w.key, w.val)
  \/ \E i \in 1..MaxInflight, r \in Results : ValidationResolved(i, r)
  \/ Rollback(1)
SpecAsync == InitAsync /\ [][NextAsync]_vars

\* Changeset 1, made with a validation map and with or without
\* skipValidate, and changeset 2, made with neither, over the one content:
\* writes, validate() and the merge of 2 into 1, which makes changeset 3.
MaxMergedOps == 4
InitMerged ==
  /\ heap = InitHeap \o << <<>>, <<>> >>
  /\ changes = [c \in CS |-> IF c = 1 THEN 4 ELSE IF c = 2 THEN 6 ELSE 0]
  /\ errors = [c \in CS |-> IF c = 1 THEN 5 ELSE IF c = 2 THEN 7 ELSE 0]
  /\ cache = [c \in CS |-> {}]
  /\ skipValidate \in {[c \in CS |-> b /\ c = 1] : b \in BOOLEAN}
  /\ validationMapOf = [c \in CS |-> IF c = 1 THEN << <<"name">> >> ELSE <<>>]
  /\ snap = 0
  /\ savedWith = <<>>
  /\ saves = <<>>
  /\ running = [c \in CS |-> <<>>]
  /\ inflight = <<>>
  /\ batch = "none"
  /\ last = NoCall
  /\ nops = 0
  /\ limit = MaxMergedOps
NextMerged ==
  \/ \E c \in CS, r \in Results : Write(c, <<"name">>, Args.val, r)
  \/ Merge(1, Args.other, 3)
  \/ \E c \in {1, 3}, r \in Results :
       ValidateAll(c, validationMapOf[c],
                   [i \in 1..Len(validationMapOf[c]) |-> r])
SpecMerged == InitMerged /\ [][NextMerged]_vars

\* A changeset made with skipValidate: writes, whatever the validator
\* would answer, among errors added by the caller.
MaxSkipOps == 3
InitSkip ==
  /\ heap = InitHeap
  /\ changes = [c \in CS |-> IF c = 1 THEN 4 ELSE 0]
  /\ errors = [c \in CS |-> IF c = 1 THEN 5 ELSE 0]
  /\ cache = [c \in CS |-> {}]
  /\ skipValidate = [c \in CS |-> c = 1]
  /\ validationMapOf = [c \in CS |-> <<>>]
  /\ snap = 0
  /\ savedWith = <<>>
  /\ saves = <<>>
  /\ running = [c \in CS |-> <<>>]
  /\ inflight = <<>>
  /\ batch = "none"
  /\ last = NoCall
  /\ nops = 0
  /\ limit = MaxSkipOps
KeysS == {<<"name">>, <<"org", "usa">>, <<"org", "usa", "ca">>}
NextSkip ==
  \/ \E k \in KeysS, v \in {P("a"), P("b"), Null}, r \in Results :
       Write(1, k, v, r)
  \/ \E k \in KeysS : WriteAsync(1, k, Args.val)
  \/ \E k \in {<<"name">>, <<"org", "asia", "sg">>} :
       AddError(1, k, Args.options)
SpecSkip == InitSkip /\ [][NextSkip]_vars

\* Writes whose validator answers with a promise that is fulfilled or
\* rejected later, among rollbacks, executes and writes to a nested key
\* validated at once.
MaxRejOps == 4
InitRej == InitOne /\ limit = MaxRejOps
NextRej ==
  \/ \E k \in {<<"name">>, <<"org">>}, v \in {P("b"), P("c")} :
       WriteAsync(1, k, v)
  \/ \E i \in 1..MaxInflight, r \in Results : ValidationResolved(i, r)
  \/ \E i \in 1..MaxInflight : ValidationRejected(i, "validatorError")
  \/ Rollback(1)
  \/ \E r \in Results : Write(1, <<"org", "usa", "ca">>, Args.val, r)
  \/ Execute(1)
SpecRej == InitRej /\ [][NextRej]_vars

\* Path-delete by itself: deleteKeysFromObject(object, key) applied to an
\* object that is cell 1 of the heap, where no changeset exists.  The call
\* returns the copy it has made; the levels below the first are shared
\* with the object.
MaxDelOps == 2
Obj1(n, v) == <<[k |-> n, v |-> v]>>
Objects ==
  { << <<>> >>,
    << Obj1("name", P("a")) >>,
    << Obj1("org", Null) >>,
    << Obj1("org", R(2)), <<>> >>,
    << Obj1("org", R(2)), Obj1("usa", P("a")) >>,
    << Obj1("org", R(2)), Obj1("usa", Null) >>,
    << Obj1("org", R(2)), Obj1("asia", R(3)), Obj1("sg", P("a")) >>,
    << Obj1("org", R(2)), Obj1("usa", R(3)), Obj1("ca", P("a")) >>,
    << Obj1("org", R(2)), Obj1("usa", R(3)),
       <<[k |-> "ca", v |-> P("a")], [k |-> "ny", v |-> P("a")]>> >>,
    << <<[k |-> "name", v |-> P("a")], [k |-> "org", v |-> R(2)]>>,
       Obj1("usa", R(3)), Obj1("ca", P("a")) >>,
    << Obj1("org", R(2)), <<[k |-> "usa", v |-> R(3)], [k |-> "asia", v |-> R(4)]>>,
       Obj1("ca", P("a")), Obj1("sg", P("a")) >>,
    << Obj1("org", R(2)), Obj1("usa", R(3)), Obj1("ca", R(4)),
       Obj1("la", P("a")) >> }
KeysD ==
  {<<"name">>, <<"org">>, <<"org", "usa">>, <<"org", "usa", "ca">>,
   <<"org", "usa", "ca", "la">>, <<"org", "usa", "ca", "la", "x">>}
InitDel ==
  /\ heap \in Objects
  /\ changes = [c \in CS |-> 0]
  /\ errors = [c \in CS |-> 0]
  /\ cache = [c \in CS |-> {}]
  /\ skipValidate = [c \in CS |-> FALSE]
  /\ validationMapOf = [c \in CS |-> <<>>]
  /\ snap = 0
  /\ savedWith = <<>>
  /\ saves = <<>>
  /\ running = [c \in CS |-> <<>>]
  /\ inflight = <<>>
  /\ batch = "none"
  /\ last = NoCall
  /\ nops = 0
  /\ limit = MaxDelOps
\* deleteKeysFromObject(object, key); last.ret is the object returned.
DeleteKeys(key) ==
  /\ nops < limit /\ nops' = nops + 1 /\ limit' = limit
  /\ \E d \in {deleteKeysFromObject(heap, CONTENT, key)} :
       Install([Cur EXCEPT
                  !.heap = d.h,
                  !.last = [NoCall EXCEPT
                              !.op = "deleteKeys", !.key = key,
                              !.thrown = d.thrown,
                              !.ret = IF d.thrown THEN Undef ELSE R(d.a)]])
  /\ UNCHANGED <<skipValidate, validationMapOf, savedWith, saves, running, inflight, batch>>
NextDel == \E key \in KeysD : DeleteKeys(key)
SpecDel == InitDel /\ [][NextDel]_vars

\* ---- what a caller observes ----------------------------------------------
M1 == Mach(1)
IsValidNow == isValid(M1)
IsDirtyNow == isDirty(M1)
ReadNow(k) == valueFor(M1, 1, k).v

\* The value v as the set of its paths, each with what it holds there.
RECURSIVE Flat(_, _, _)
Flat(h, v, p) ==
  IF IsRef(v)
  THEN {[p |-> p, v |-> Seen(v)]} \cup
       UNION {Flat(h, e.v, Append(p, e.k)) : e \in {h[v.a][i] : i \in 1..Len(h[v.a])}}
  ELSE {[p |-> p, v |-> v]}
Leaves(F) == {e \in F : e.v # Seen(R(0))}
Prefix(q, p) == Len(q) <= Len(p) /\ SubSeq(p, 1, Len(q)) = q

ContentNow == Flat(heap, R(CONTENT), <<>>)
ChangesNow == Flat(heap, R(changes[1]), <<>>)
ErrorsNow == Flat(heap, R(errors[1]), <<>>)
PendingAt(k) == HasPath(heap, R(changes[1]), k)
PendingValue(k) ==
  Bind(get(heap, R(changes[1]), k), LAMBDA v : Flat(heap, v, <<>>))

\* An error record is an object with a `validation` property.
IsRecord(h, v) == IsRef(v) /\ ObjHas(h[v.a], "validation")
ErrorAt(k) == \E e \in {get(heap, R(errors[1]), k)} : IsRecord(heap, e)
ErrorRec(k) ==
  Bind(get(heap, R(errors[1]), k),
       LAMBDA e : [value |-> JsProp(heap, e, "value"),
                   validation |-> JsProp(heap, e, "validation")])
RECURSIVE RecordKeys(_, _, _)
RecordKeys(h, v, p) ==
  IF IsRecord(h, v) THEN {p}
  ELSE IF IsRef(v)
  THEN UNION {RecordKeys(h, e.v, Append(p, e.k)) :
                e \in {h[v.a][i] : i \in 1..Len(h[v.a])}}
  ELSE {}
ErrorKeys == RecordKeys(heap, R(errors[1]), <<>>)
ChangeKeys == {e.p : e \in Leaves(ChangesNow)}

\* The validator results the two success tests of _setProperty let through,
\* and those _validate turns into `true` first.
Accepts(raw) == raw \in {True, Arr(<<"true">>)}
Blank(raw) == raw \in {Undef, Null, P(""), P(" "), Arr(<<>>)}

\* path-delete raises on the buffer at cell a for key k (lines 62-72).
RaisesOn(a, k) ==
  /\ Len(k) = 3
  /\ Len(heap[a]) > 0
  /\ ~isEmpty(ObjGet(heap[a], k[1]))
  /\ isNone(JsProp(heap, ObjGet(heap[a], k[1]), k[2]))

\* The step just taken was a call of op.
Did(op) == nops' = nops + 1 /\ last'.op = op

\* ---- C1 ------------------------------------------------------------------
\* C1: no key path is at once a pending change in the changes buffer and an
\* error record in the errors buffer.
C1_NoKeyInBoth == ChangeKeys \cap ErrorKeys = {}

\* ---- C2 ------------------------------------------------------------------
\* C2: after an accepted write of v to k, reading k gives v, and the
\* changeset is dirty unless v equals the content's value at k.
C2_ReadAfterWrite ==
  (last.op = "write" /\ ~last.thrown /\ Accepts(last.raw)) =>
    /\ ReadNow(last.key) = last.val
    /\ (last.val # last.old => IsDirtyNow)

\* ---- C3 ------------------------------------------------------------------
Rejects(raw) == ~Accepts(raw) /\ ~Blank(raw)

\* C3 as stated: a write to k whose validation fails leaves the changes
\* buffer as it was at k.
C3_ChangesUntouched ==
  [][\A k \in Keys :
       (Did("write") /\ last'.key = k /\ ~last'.thrown /\ Rejects(last'.raw))
         => /\ PendingAt(k)' = PendingAt(k)
            /\ PendingValue(k)' = PendingValue(k)]_vars

\* C3 amended: a write of v to k whose validation fails removes the pending
\* change at k, installs the error record {value: v, validation: result} at
\* k and leaves the changeset invalid; when path-delete raises on the
\* changes buffer for k, the write raises and both buffers stay as they were.
C3_RejectedWrite ==
  [][\A k \in Keys :
       (Did("write") /\ last'.key = k /\ Rejects(last'.raw)) =>
         IF RaisesOn(changes[1], k)
         THEN /\ last'.thrown
              /\ ChangesNow' = ChangesNow
              /\ ErrorsNow' = ErrorsNow
         ELSE /\ ~last'.thrown
              /\ ~PendingAt(k)'
              /\ ErrorAt(k)'
              /\ ErrorRec(k)' = [value |-> last'.val, validation |-> last'.raw]
              /\ ~IsValidNow']_vars

\* A rejected write has evicted the change that was pending at its key.
C3_Witness ==
  /\ last.op = "write" /\ ~last.thrown /\ Rejects(last.raw)
  /\ last.had
  /\ ~PendingAt(last.key)
  /\ ErrorAt(last.key)

\* ---- C4 ------------------------------------------------------------------
\* C4: after an accepted write, to a key k with a pending change, of the
\* value the content holds at k, no change is pending at k.
C4_EqualWriteClears ==
  (last.op = "write" /\ ~last.thrown /\ Accepts(last.raw) /\ last.had
     /\ last.val = last.old) => ~PendingAt(last.key)

\* ---- C5 ------------------------------------------------------------------
\* C5: when k is the only key with an error, an accepted write to k of the
\* content's value at k leaves no error record at k and the changeset valid.
C5_WriteBackValid ==
  [][\A k \in Keys :
       (Did("write") /\ last'.key = k /\ ~last'.thrown /\ Accepts(last'.raw)
          /\ last'.val = last'.old /\ ErrorKeys = {k})
         => (~ErrorAt(k)' /\ IsValidNow')]_vars

\* ---- C6 ------------------------------------------------------------------
\* C6 as stated: a write whose validator result is neither true nor [true]
\* installs the error record {value, validation: result} at its key.
C6_OnlyTrueAccepted ==
  [][\A k \in KeysV :
       (Did("write") /\ last'.key = k /\ ~last'.thrown /\ ~Accepts(last'.raw))
         => /\ ErrorAt(k)'
            /\ ErrorRec(k)' = [value |-> last'.val,
                               validation |-> last'.raw]]_vars

\* C6 amended: a write is accepted exactly when the validator's result is
\* true, [true] or blank (undefined, null, '', a string of white space, []):
\* it returns the value and leaves no error record at the key.  Every other
\* result is a failure and installs the error record {value, validation:
\* result}.  Either way the write raises instead, installing nothing, when
\* path-delete raises on the buffer it clears at the key.
C6_Accepted ==
  [][\A k \in KeysV :
       (Did("write") /\ last'.key = k) =>
         IF Accepts(last'.raw) \/ Blank(last'.raw)
         THEN IF RaisesOn(errors[1], k)
              THEN last'.thrown /\ ErrorsNow' = ErrorsNow
              ELSE ~last'.thrown /\ last'.ret = last'.val /\ ~ErrorAt(k)'
         ELSE IF RaisesOn(changes[1], k)
              THEN last'.thrown /\ ErrorsNow' = ErrorsNow
              ELSE /\ ~last'.thrown
                   /\ ErrorAt(k)'
                   /\ ErrorRec(k)' = [value |-> last'.val,
                                      validation |-> last'.raw]]_vars

\* A write under a blank validator result has been accepted.
C6_Witness ==
  /\ last.op = "write" /\ ~last.thrown /\ Blank(last.raw)
  /\ last.ret = last.val
  /\ ~ErrorAt(last.key)
  /\ PendingAt(last.key)

\* ---- C7 ------------------------------------------------------------------
\* C7: no call other than execute and save changes the content.
C7_ContentUntouched ==
  [][(nops' = nops + 1 /\ last'.op \notin {"execute", "save"})
       => ContentNow' = ContentNow]_vars

\* ---- C8 ------------------------------------------------------------------
\* C8: execute returns the changeset; on a valid and dirty changeset the
\* content afterwards holds every pending value at its path, on any other
\* changeset the content is as it was.
C8_Execute ==
  [][Did("execute") =>
       /\ ~last'.thrown
       /\ last'.ret = This(1)
       /\ IF IsValidNow /\ IsDirtyNow
          THEN ChangesNow \subseteq ContentNow'
          ELSE ContentNow' = ContentNow]_vars

\* execute has put a pending value into the content.
C8_Witness ==
  /\ last.op = "execute"
  /\ IsValidNow /\ IsDirtyNow
  /\ ChangesNow \subseteq ContentNow
  /\ ContentNow # Flat(InitHeap, R(CONTENT), <<>>)

\* ---- C9 ------------------------------------------------------------------
\* C9: execute leaves every value of the content whose path is not at or
\* under the path of a pending change as it was.
Pending(p) == \E e \in Leaves(ChangesNow) : Prefix(e.p, p)
C9_SiblingsKept ==
  [][Did("execute") =>
       \A e \in Leaves(ContentNow) : ~Pending(e.p) => e \in ContentNow']_vars

\* ---- C10 -----------------------------------------------------------------
\* C10: save on a valid and dirty changeset puts the pending values into the
\* content and calls the content's save, if it has one, with the options;
\* when the promise is fulfilled both buffers are empty and the result is
\* that of the content's save, or the changeset when the content has none.
C10_Save ==
  [][/\ (Did("save") /\ IsValidNow /\ IsDirtyNow) =>
          /\ ChangesNow \subseteq ContentNow'
          /\ savedWith' = IF saves'[Len(saves')].own THEN savedWith
                          ELSE Append(savedWith, last'.val.s)
     /\ Did("saved") =>
          /\ ~IsDirtyNow' /\ IsValidNow'
          /\ \E i \in 1..Len(saves) :
               /\ saves' = SubSeq(saves, 1, i - 1) \o SubSeq(saves, i + 1, Len(saves))
               /\ last'.ret = IF saves[i].own THEN This(1) ELSE P("saveResult")]_vars

\* A save that applied a change and called the content's save has ended.
C10_Witness ==
  /\ last.op = "saved" /\ last.ret = P("saveResult")
  /\ savedWith = <<"opts">>
  /\ get(heap, R(CONTENT), <<"name">>) = P("b")
  /\ ~IsDirtyNow /\ IsValidNow

\* ---- C11 -----------------------------------------------------------------
\* C11: when the content's save rejects, the promise save returned rejects
\* with the same reason and nothing is rolled back: neither the call of save
\* nor the rejection changes the changes buffer or the errors buffer.
C11_SaveRejected ==
  [][/\ Did("save") =>
          ChangesNow' = ChangesNow /\ ErrorsNow' = ErrorsNow
     /\ Did("saveRejected") =>
          /\ ~last'.thrown
          /\ last'.ret = Rejected("saveError")
          /\ ChangesNow' = ChangesNow
          /\ ErrorsNow' = ErrorsNow]_vars

\* A save has been rejected and the changeset still holds a pending change
\* and an error.
C11_Witness ==
  /\ last.op = "saveRejected" /\ last.ret = Rejected("saveError")
  /\ IsDirtyNow /\ ~IsValidNow
  /\ savedWith = <<"opts">>

\* ---- C12 -----------------------------------------------------------------
\* What a read of k gives when nothing is buffered at k: the content's value,
\* through a relay when it is an object.
ContentRead(k) ==
  Bind(get(heap, R(CONTENT), k),
       LAMBDA v : IF isObject(v) THEN RelayV(1, k) ELSE v)

\* C12: when rollback returns the changeset is pristine and valid, both
\* buffers are empty, and a read of any key gives the content's value.
C12_Rollback ==
  (last.op = "rollback") =>
    /\ ~last.thrown /\ last.ret = This(1)
    /\ ~IsDirtyNow /\ IsValidNow
    /\ Len(heap[changes[1]]) = 0 /\ Len(heap[errors[1]]) = 0
    /\ \A k \in Keys : ReadNow(k) = ContentRead(k)

\* ---- C13 -----------------------------------------------------------------
\* The buffers of changeset c, as the observers above give them for
\* changeset 1.
ChangesOf(c) == Flat(heap, R(changes[c]), <<>>)
ErrorsOf(c) == Flat(heap, R(errors[c]), <<>>)
ChangeKeysOf(c) == {e.p : e \in Leaves(ChangesOf(c))}
ErrorKeysOf(c) == RecordKeys(heap, R(errors[c]), <<>>)
RecOf(c, k) ==
  Bind(get(heap, R(errors[c]), k),
       LAMBDA e : [value |-> JsProp(heap, e, "value"),
                   validation |-> JsProp(heap, e, "validation")])

\* C13: a.merge(b) returns a changeset whose changes are those of a at the
\* keys that neither err nor are changed in b, together with all changes of
\* b, and whose errors are those of a at the keys that are neither changed
\* nor err in b, together with all errors of b (a is 1, b is 2).
C13_Merge ==
  [][(Did("merge") /\ ~last'.thrown) =>
       \A n \in CS : last'.ret = This(n) =>
         /\ Leaves(ChangesOf(n))' =
              {e \in Leaves(ChangesOf(1)) :
                 e.p \notin ErrorKeysOf(2) /\ e.p \notin ChangeKeysOf(2)}
              \cup Leaves(ChangesOf(2))
         /\ ErrorKeysOf(n)' =
              (ErrorKeysOf(1) \ ChangeKeysOf(2)) \cup ErrorKeysOf(2)
         /\ \A k \in KeysM :
              k \in ErrorKeysOf(n)' =>
                RecOf(n, k)' = IF k \in ErrorKeysOf(2) THEN RecOf(2, k)
                               ELSE RecOf(1, k)]_vars

\* ---- C14 -----------------------------------------------------------------
\* C14: merge changes the buffers of neither of its two changesets, and a
\* write to the changeset merge made (3) changes the buffers of neither of
\* the two it was made from (1 and 2).
C14_MergeIndependent ==
  [][(Did("merge") \/ (Did("write") /\ last'.c = 3)) =>
       \A c \in {1, 2} : /\ ChangesOf(c)' = ChangesOf(c)
                         /\ ErrorsOf(c)' = ErrorsOf(c)]_vars

\* ---- C15 -----------------------------------------------------------------
\* C15: merge with what is no changeset, or with a changeset over another
\* content, raises, makes no changeset and leaves every buffer and the
\* content as they were; prepare with a callback that returns no mapping
\* raises and leaves the buffers as they were.
C15_Misuse ==
  [][/\ (Did("merge") /\ last'.val \in {Foreign, R(CONTENT)}) =>
          /\ last'.thrown
          /\ \A c \in CS : (changes'[c] = 0) = (changes[c] = 0)
          /\ \A c \in {1, 2} : /\ ChangesOf(c)' = ChangesOf(c)
                               /\ ErrorsOf(c)' = ErrorsOf(c)
          /\ ContentNow' = ContentNow
     /\ (Did("prepare") /\ last'.val = P("string")) =>
          /\ last'.thrown
          /\ ChangesNow' = ChangesNow
          /\ ErrorsNow' = ErrorsNow]_vars

\* A merge with a changeset over another content has raised on a changeset
\* that holds a change and an error.
C15_Witness ==
  /\ last.op = "merge" /\ last.val = Foreign /\ last.thrown
  /\ IsDirtyNow /\ ~IsValidNow
  /\ changes[3] = 0

\* ---- C16 -----------------------------------------------------------------
\* The snapshot the caller holds: the changes and the errors recorded in it.
SnapNow == IF snap = 0 THEN {} ELSE Flat(heap, R(snap), <<>>)

\* C16: no call made after s = snapshot(), other than a new snapshot(),
\* alters the changes or the errors recorded in s.
C16_SnapshotKept ==
  [][(nops' = nops + 1 /\ snap # 0 /\ last'.op # "snapshot")
       => SnapNow' = SnapNow]_vars

\* ---- C17 -----------------------------------------------------------------
\* C17: restore(s) makes the buffers equal to those recorded in s, and a
\* write made after restore(s) does not alter what is recorded in s.
C17_RestoreKept ==
  [][/\ Did("restore") =>
          /\ {[p |-> <<"changes">> \o e.p, v |-> e.v] : e \in ChangesNow'}
               \cup {[p |-> <<"errors">> \o e.p, v |-> e.v] : e \in ErrorsNow'}
               \cup {[p |-> <<>>, v |-> Seen(R(snap))]}
             = SnapNow
          /\ SnapNow' = SnapNow
     /\ (Did("write") /\ last.op = "restore") => SnapNow' = SnapNow]_vars

\* ---- C18 -----------------------------------------------------------------
\* The top-level property names of the changes buffer, in its order.
TopKeys == ObjKeys(heap[changes[1]])

\* C18: cast with a list that is not empty leaves in the changes buffer
\* exactly the entries whose top-level name is in the list, with their
\* values and in the order they had; cast with an empty list leaves the
\* changes buffer as it is; neither changes the errors buffer.
C18_Cast ==
  [][\A allowed \in Allowed :
       (Did("cast") /\ last'.val = Arr(allowed)) =>
         /\ ~last'.thrown
         /\ ErrorsNow' = ErrorsNow
         /\ IF allowed = <<>>
            THEN TopKeys' = TopKeys /\ ChangesNow' = ChangesNow
            ELSE /\ TopKeys' = SelectSeq(TopKeys, LAMBDA n : includes(allowed, n))
                 /\ ChangesNow' = {e \in ChangesNow :
                                     e.p = <<>> \/ includes(allowed, e.p[1])}]_vars

\* A cast has kept two changes, in the order they were made and not in the
\* order of its list.
C18_Witness ==
  /\ last.op = "cast" /\ last.val = Arr(<<"org", "name">>)
  /\ TopKeys = <<"name", "org">>
  /\ PendingValue(<<"org", "usa", "ca">>) = {[p |-> <<>>, v |-> P("b")]}

\* ---- C19 -----------------------------------------------------------------
\* What a read of k gives, as the set of its paths.
ReadFlat(k) == Bind(ReadNow(k), LAMBDA v : Flat(heap, v, <<>>))
ErrorValue(k) == Bind(ErrorRec(k).value, LAMBDA v : Flat(heap, v, <<>>))

\* C19: addError(k, e) with e a message returns normally and leaves at k the
\* error record {value: what a read of k gave before the call, validation:
\* e}, no pending change at k, and the changeset invalid.
C19_AddError ==
  [][\A k \in Keys :
       (Did("addError") /\ last'.key = k) =>
         /\ ~last'.thrown
         /\ ErrorAt(k)'
         /\ ErrorRec(k)'.validation = last'.val
         /\ ErrorValue(k)' = ReadFlat(k)
         /\ ~PendingAt(k)'
         /\ ~IsValidNow']_vars

\* ---- C20 -----------------------------------------------------------------
\* The messages recorded at k: those of the error record's validation, one
\* message when it is a string, none when k has no error record.
Messages(k) ==
  IF ~ErrorAt(k) THEN <<>>
  ELSE Bind(ErrorRec(k).validation,
            LAMBDA v : IF isArray(v) THEN v.l ELSE <<v.s>>)

\* C20: pushErrors(k, m1..mn) returns normally and leaves at k an error
\* record whose validation is the messages recorded before followed by
\* m1..mn and whose value is that of the record k had, or what a read of k
\* gave when it had none, and no pending change at k.
C20_PushErrors ==
  [][\A k \in Keys :
       (Did("pushErrors") /\ last'.key = k) =>
         /\ ~last'.thrown
         /\ ErrorAt(k)'
         /\ ErrorRec(k)'.validation = Arr(Messages(k) \o last'.val.l)
         /\ ErrorValue(k)' = IF ErrorAt(k) THEN ErrorValue(k) ELSE ReadFlat(k)
         /\ ~PendingAt(k)']_vars

\* ---- C21 -----------------------------------------------------------------
\* The promise validate() returned has been settled, or validate() raised:
\* its result has reached the caller.
Delivered == batch \in {"fulfilled", "rejected", "thrown"}

\* C21: when the result of validate() reaches the caller, none of the
\* validations it started is in flight, and the result is no failure.
C21_ValidateAll ==
  Delivered =>
    /\ \A i \in 1..Len(inflight) : ~inflight[i].batch
    /\ batch = "fulfilled"

\* ---- C22 -----------------------------------------------------------------
\* The validations of key k in flight, and what _runningValidations holds.
InFlightOf(k) ==
  Cardinality({i \in 1..Len(inflight) :
                 inflight[i].c = 1 /\ inflight[i].key = k})
RunningCount(k) == Count(running[1], k)
RunningHas(k) == Len(k) = 1 /\ ObjHas(running[1], k[1])

\* C22: with validators that only resolve, the running-validations counter
\* holds for each key the number of its validations in flight, holds the
\* key exactly when that number is positive, isValidating(key) is true
\* exactly when it holds the key, and a call for one key leaves the count of
\* every other key as it was.
C22_RunningCount ==
  [][/\ \A k \in KeysA :
          /\ RunningCount(k)' = InFlightOf(k)'
          /\ RunningHas(k)' = (InFlightOf(k)' > 0)
          /\ isValidating(running[1], k)' = RunningHas(k)'
     /\ isValidating(running[1], <<>>)' = (Len(inflight') > 0)
     /\ \A k \in KeysA, k2 \in KeysA :
          (nops' = nops + 1 /\ last'.key = k /\ k2 # k) =>
            RunningCount(k2)' = RunningCount(k2)]_vars

\* One of two validations of name in flight has ended.
C22_Witness ==
  /\ last.op = "validated" /\ last.key = <<"name">>
  /\ RunningCount(<<"name">>) = 1
  /\ InFlightOf(<<"name">>) = 1

\* ---- C23 -----------------------------------------------------------------
\* The events of a sequence of fired events, each with its key.
Events(f) == [i \in 1..Len(f) |-> [name |-> f[i].name, key |-> f[i].key]]
Before(k) == [name |-> BEFORE_VALIDATION_EVENT, key |-> k]
Afterwards(k) == [name |-> AFTER_VALIDATION_EVENT, key |-> k]

\* C23 as stated: every write to k fires beforeValidation(k) once and
\* afterValidation(k) once, whatever the options: both in the call when the
\* validator answers at once, the first in the call and the second when the
\* promise is fulfilled when it answers with a promise.
C23_EventsOnce ==
  [][\A k \in KeysA :
       /\ (Did("write") /\ last'.key = k) =>
            Events(last'.fired) = <<Before(k), Afterwards(k)>>
       /\ (Did("writeAsync") /\ last'.key = k) =>
            /\ Events(last'.fired) = <<Before(k)>>
            /\ Len(inflight') = Len(inflight) + 1
       /\ (Did("validated") /\ last'.key = k) =>
            Events(last'.fired) = <<Afterwards(k)>>]_vars

\* C23 amended: a write to k on a changeset without skipValidate fires
\* beforeValidation(k) once and afterValidation(k) once: both in the call
\* when the validator answers at once; when it answers with a promise, the
\* first in the call and the second when the promise is fulfilled, and the
\* call raises instead, firing neither, when k has several segments.  With
\* skipValidate a write fires neither.
C23_Events ==
  [][\A k \in KeysA :
       /\ (Did("write") /\ last'.key = k) =>
            Events(last'.fired) = IF skipValidate[1] THEN <<>>
                                  ELSE <<Before(k), Afterwards(k)>>
       /\ (Did("writeAsync") /\ last'.key = k) =>
            IF skipValidate[1]
            THEN last'.fired = <<>> /\ inflight' = inflight
            ELSE IF Len(k) > 1
            THEN last'.thrown /\ last'.fired = <<>> /\ inflight' = inflight
            ELSE /\ ~last'.thrown
                 /\ Events(last'.fired) = <<Before(k)>>
                 /\ Len(inflight') = Len(inflight) + 1
       /\ (Did("validated") /\ last'.key = k) =>
            /\ Events(last'.fired) = <<Afterwards(k)>>
            /\ Len(inflight') = Len(inflight) - 1]_vars

\* A validation of name has ended and fired afterValidation(name), on a
\* changeset without skipValidate.
C23_Witness ==
  /\ last.op = "validated" /\ last.key = <<"name">>
  /\ ~skipValidate[1]
  /\ Events(last.fired) = <<Afterwards(<<"name">>)>>

\* ---- C24 -----------------------------------------------------------------
\* C24: when a validation of k ends, whatever other validations of k are in
\* flight and in whatever order they were started, the buffers hold at k
\* its outcome alone: accepted, no error record and the value as pending
\* change (no pending change when it is the content's value); rejected, the
\* error record {value, validation} and no pending change.  The running
\* count of k goes down by one.
C24_LastWins ==
  [][\A k \in KeysA :
       (Did("validated") /\ last'.key = k) =>
         /\ ~last'.thrown
         /\ RunningCount(k)' = RunningCount(k) - 1
         /\ IF Accepts(last'.raw)
            THEN /\ ~ErrorAt(k)'
                 /\ IF last'.val = last'.old THEN ~PendingAt(k)'
                    ELSE PendingValue(k)' = {[p |-> <<>>, v |-> last'.val]}
            ELSE /\ ~PendingAt(k)'
                 /\ ErrorAt(k)'
                 /\ ErrorRec(k)' = [value |-> last'.val,
                                    validation |-> last'.raw]]_vars

\* Of two validations of name in flight the one started second has ended
\* first, and its value is the pending change.
C24_Witness ==
  /\ last.op = "validated" /\ last.key = <<"name">>
  /\ last.val = P("c") /\ last.issued = 1
  /\ Len(inflight) = 1
  /\ inflight[1].key = <<"name">> /\ inflight[1].value = P("b")
  /\ inflight[1].at = 0
  /\ RunningCount(<<"name">>) = 1
  /\ PendingValue(<<"name">>) = {[p |-> <<>>, v |-> P("c")]}

\* ---- C25 -----------------------------------------------------------------
\* C25: a relay cached for k is dropped when k is overwritten with a
\* primitive: after an accepted write of a string v to a key whose relay an
\* earlier read has cached, reading k gives v.
C25_RelayInvalidated ==
  (/\ last.op = "write" /\ ~last.thrown /\ Accepts(last.raw)
   /\ IsString(last.val) /\ last.key \in cache[1]) =>
    ReadNow(last.key) = last.val

\* ---- C26 -----------------------------------------------------------------
\* C26: path-delete of a path of four segments or more raises, whatever
\* the object it is given.
C26_DepthRaises ==
  (last.op = "deleteKeys" /\ Len(last.key) >= 4) => last.thrown

\* ---- C30 -----------------------------------------------------------------
\* The object given to path-delete and the object it has returned.
Object == Flat(heap, R(CONTENT), <<>>)
Returned == IF IsRef(last.ret) THEN Flat(heap, last.ret, <<>>) ELSE {}
\* The first segment of k is a property of the object and a level that k
\* passes through below it holds nothing.
AbsentLevel(k) ==
  /\ Len(k) \in {2, 3}
  /\ ObjHas(heap[CONTENT], k[1])
  /\ isNone(get(heap, R(CONTENT), Front(k)))
\* The value at k is the only property of its parent.
OnlyChild(k) ==
  /\ HasPath(heap, R(CONTENT), k)
  /\ JsKeysLength(heap, get(heap, R(CONTENT), Front(k))) = 1

\* C30: path-delete of a path of two or three segments that passes through
\* an absent level returns without raising, the object returned holding
\* all the object given held; path-delete of a path of one or two segments
\* whose leaf is the only property of its parent returns an object without
\* the parent's entry.
C30_AbsentLevel ==
  [][\A k \in KeysD :
       (Did("deleteKeys") /\ last'.key = k) =>
         /\ AbsentLevel(k) =>
              ~last'.thrown /\ Returned' = Object /\ Object' = Object
         /\ (Len(k) \in {1, 2} /\ OnlyChild(k)) =>
              /\ ~last'.thrown
              /\ \A e \in Returned' : e.p = <<>> \/ e.p[1] # k[1]]_vars

\* ---- C27 -----------------------------------------------------------------
\* C27: a write whose validation fails returns normally, whatever the key
\* and whatever the buffers hold, and leaves at the key the error record
\* {value, validation}.
C27_RejectedReturns ==
  (last.op = "write" /\ Rejects(last.raw)) =>
    /\ ~last.thrown
    /\ ErrorAt(last.key)
    /\ ErrorRec(last.key) = [value |-> last.val, validation |-> last.raw]

\* ---- C28 -----------------------------------------------------------------
\* C28: a validation started before a rollback and ended after it is
\* applied as any other: accepted, its value is the pending change at its
\* key and the changeset is dirty; rejected, its error record is at its
\* key and the changeset is invalid.
C28_NoCancellation ==
  [][\A k \in KeysA :
       (Did("validated") /\ last'.key = k /\ last'.crossed) =>
         /\ ~last'.thrown
         /\ IF Accepts(last'.raw)
            THEN last'.val # last'.old =>
                   /\ PendingValue(k)' = {[p |-> <<>>, v |-> last'.val]}
                   /\ IsDirtyNow'
            ELSE ErrorAt(k)' /\ ~IsValidNow']_vars

\* A write that validates with a promise, a rollback, and the promise
\* fulfilled: the changeset is dirty with no write since the rollback.
C28_Witness ==
  /\ nops = 3
  /\ last.op = "validated" /\ last.crossed /\ Accepts(last.raw)
  /\ IsDirtyNow
  /\ PendingValue(last.key) = {[p |-> <<>>, v |-> last.val]}

\* ---- C29 -----------------------------------------------------------------
\* What a listener of the one event a call has fired saw: the running count
\* of the key, and whether the changeset was pristine and valid.
Saw(call, count, pristine, valid) ==
  /\ Len(call.fired) = 1
  /\ call.fired[1].count = count
  /\ call.fired[1].pristine = pristine
  /\ call.fired[1].valid = valid

\* C29: a write to k whose validator answers with a promise returns the
\* promise with the buffers as they were, the running count of k one
\* higher, and beforeValidation(k) fired after the count was raised; when
\* the promise is fulfilled afterValidation(k) fires after the count was
\* lowered and before the buffers are updated.
C29_AsyncOrder ==
  [][\A k \in KeysA :
       /\ (Did("writeAsync") /\ last'.key = k /\ ~skipValidate[1]) =>
            /\ ~last'.thrown /\ last'.ret = PromiseV
            /\ Events(last'.fired) = <<Before(k)>>
            /\ Saw(last', RunningCount(k) + 1, ~IsDirtyNow, IsValidNow)
            /\ RunningCount(k)' = RunningCount(k) + 1
            /\ ChangesOf(1)' = ChangesOf(1) /\ ErrorsOf(1)' = ErrorsOf(1)
       /\ (Did("validated") /\ last'.key = k) =>
            /\ Events(last'.fired) = <<Afterwards(k)>>
            /\ Saw(last', RunningCount(k) - 1, ~IsDirtyNow, IsValidNow)
            /\ RunningCount(k)' = RunningCount(k) - 1]_vars

\* ---- C31 -----------------------------------------------------------------
\* C31: on a changeset with no pending change and no error, validate() and
\* validate(key) with a validator that accepts leave the changes buffer
\* empty, the content's value at a validated key being a primitive (name)
\* or a mapping (org).
C31_ValidateMarksNothing ==
  [][(/\ ~IsDirtyNow /\ IsValidNow
      /\ \/ \E vm \in ValidationMaps : ValidateAll(1, vm, <<True, True>>)
         \/ \E k \in {<<"name">>, <<"org">>} : ValidateKey(1, k, True))
       => ~IsDirtyNow']_vars

\* ---- C32 -----------------------------------------------------------------
\* C32: save on an invalid changeset leaves the content and both buffers as
\* they are and calls the content's save, if it has one, with the options;
\* when the promise is fulfilled both buffers are emptied.
C32_SaveInvalid ==
  [][/\ (Did("save") /\ ~IsValidNow) =>
          /\ ~last'.thrown
          /\ ContentNow' = ContentNow
          /\ ChangesNow' = ChangesNow /\ ErrorsNow' = ErrorsNow
          /\ Len(saves') = Len(saves) + 1
          /\ ~saves'[Len(saves')].own =>
               savedWith' = Append(savedWith, last'.val.s)
     /\ (Did("saved") /\ ~IsValidNow) =>
          ~IsDirtyNow' /\ IsValidNow' /\ ErrorKeys' = {}]_vars

\* A rejected write, a save that called the content's save, and the promise
\* fulfilled: the error is gone and the content is as it was made.
C32_Witness ==
  /\ nops = 3
  /\ last.op = "saved" /\ last.issued = 1 /\ last.ret = P("saveResult")
  /\ savedWith = <<"opts">>
  /\ ContentNow = Flat(InitHeap, R(CONTENT), <<>>)
  /\ ~IsDirtyNow /\ IsValidNow

Leaked(k) == RunningCount(k) > InFlightOf(k)

\* C34: when the validator's promise of a write to k is rejected, the
\* promise the write returned rejects with the same reason, no event fires,
\* both buffers and the running count of k are as they were; and from then
\* on, whatever is called, isValidating(k) is true.
C34_ValidatorRejects ==
  [][\A k \in {<<"name">>, <<"org">>} :
       /\ (Did("validationRejected") /\ last'.key = k) =>
            /\ ~last'.thrown
            /\ last'.ret = Rejected("validatorError")
            /\ last'.fired = <<>>
            /\ ChangesNow' = ChangesNow /\ ErrorsNow' = ErrorsNow
            /\ RunningCount(k)' = RunningCount(k)
            /\ InFlightOf(k)' = InFlightOf(k) - 1
            /\ Leaked(k)'
       /\ Leaked(k) => Leaked(k)' /\ isValidating(running'[1], k)]_vars

\* A validation of name was rejected, another was fulfilled after it, none
\* is in flight, and isValidating(name) is true.
C34_Witness ==
  /\ last.op = "validated" /\ last.key = <<"name">>
  /\ inflight = <<>>
  /\ RunningCount(<<"name">>) = 1
  /\ isValidating(running[1], <<"name">>)

C36_SkipValidate ==
  [][\A k \in KeysS :
       ((Did("write") \/ Did("writeAsync")) /\ last'.key = k
        /\ skipValidate[1]) =>
         /\ ~last'.thrown
         /\ last'.ret = last'.val
         /\ last'.fired = <<>> /\ inflight' = inflight
         /\ ErrorKeys' \subseteq ErrorKeys
         /\ PendingValue(k)' = {[p |-> <<>>, v |-> last'.val]}
         /\ IsDirtyNow']_vars

\* ---- C37 -----------------------------------------------------------------
\* C37: execute leaves the changes buffer, the errors buffer and the
\* running validations as they are, so the changeset it has applied is
\* still dirty; an execute that follows an execute leaves the content as
\* the first left it.
C37_ExecuteKeeps ==
  [][Did("execute") =>
       /\ ~last'.thrown
       /\ ChangesNow' = ChangesNow /\ ErrorsNow' = ErrorsNow
       /\ running' = running /\ inflight' = inflight
       /\ IsDirtyNow' = IsDirtyNow
       /\ (last.op = "execute") => ContentNow' = ContentNow]_vars

\* execute has applied a nested pending change while a validation of name
\* was in flight; the changeset is still dirty.
C37_Witness ==
  /\ last.op = "execute"
  /\ IsDirtyNow /\ IsValidNow
  /\ get(heap, R(CONTENT), <<"org", "usa", "ca">>) = P("b")
  /\ PendingValue(<<"org", "usa", "ca">>) = {[p |-> <<>>, v |-> P("b")]}
  /\ RunningCount(<<"name">>) = 1 /\ InFlightOf(<<"name">>) = 1

====
